---- MODULE Spec2Model ----
(***************************************************************************)
(* Master/Worker task-dispatch engine of the parallel-processing           *)
(* simulation: master.py (Master and its three backends), worker.py        *)
(* (ThreadWorker / ProcessWorker loops) and task.py (Task, workload        *)
(* lookup).  Time is a non-decreasing clock read through time.time();      *)
(* every duration is the difference of two such readings.                  *)
(***************************************************************************)
EXTENDS Integers, Sequences, FiniteSets, TLC

VARIABLES
    backend,          \* which Master subclass was constructed
    num_workers,      \* Master.num_workers
    workers,          \* Master.workers: the worker ids, in pool order
    running,          \* Master.running
    tasks_submitted,  \* Master.tasks_submitted
    tasks_completed,  \* Master.tasks_completed
    task_queue,       \* Master.task_queue: Tasks and None sentinels, FIFO
    result_queue,     \* Master.result_queue: processed Tasks, FIFO
    wpc,              \* per worker: created / head / get / processing / stopped
    wrunning,         \* per worker: Worker.running as read by its loop
    wtask,            \* per worker: the Task it dequeued and is processing
    wpills,           \* per worker: how many sentinels it has dequeued
    sentinels_sent,   \* how many None sentinels were ever put on task_queue
    mpc,              \* where the caller's thread is inside the Master
    rb,               \* run_benchmark: none/active/returning/raising/returned/raised
    rbN,              \* run_benchmark's num_tasks argument
    rbI,              \* generate_workload's loop index i
    rbFresh,          \* run_benchmark was called on an unused Master
    rbStarted,        \* run_benchmark's start_workers() returned normally
    rbPolled,         \* wait_for_completion entered its polling loop
    all_results,      \* wait_for_completion's all_results
    rbResult,         \* the statistics record run_benchmark returned
    exc,              \* exception raised by the latest public call, or "none"
    stopCalls,        \* how many times the caller invoked stop_workers itself
    wflag,            \* per worker: Worker.running of the object the Master holds
    waitTimeout,      \* wait_for_completion's timeout: <<>> is None, else <<t>>
    waitElapsed,      \* wait_for_completion's latest time.time() - start_time
    waitTimedOut,     \* the latest wait_for_completion left through its timeout
    waitBacklog,      \* the ids of the Tasks the task queue held when it did so
    stopMark          \* tasks_submitted when stop_workers last put its sentinels

vars == <<backend, num_workers, workers, running, tasks_submitted,
          tasks_completed, task_queue, result_queue, wpc, wrunning, wtask,
          wpills, sentinels_sent, mpc, rb, rbN, rbI, rbFresh, rbStarted,
          rbPolled, all_results, rbResult, exc, stopCalls, wflag,
          waitTimeout, waitElapsed, waitTimedOut, waitBacklog, stopMark>>

\* the state of the latest wait_for_completion call
waitVars == <<waitTimeout, waitElapsed, waitTimedOut, waitBacklog>>

----------------------------------------------------------------------------
(* Bounds of the model *)

MaxTasks == 2
MaxWorkers == 2
MaxStopCalls == 2

\* readings of time.time(), a clock that never runs backwards
Clock == 0 .. 1

\* readings of time.time() - start_time inside wait_for_completion
WaitClock == 0 .. 2

\* the timeout arguments of wait_for_completion: None, 0 and a positive one
Timeouts == {<<>>, <<0>>, <<1>>}

Backends == {"single_process", "threaded", "multiprocess"}

\* task.py generate_random_task: task_types
TaskTypes == {"io", "cpu", "mixed"}

\* A payload stands for what the workload called with it does: return a
\* value after some time, return None, or raise at once.  io_task, cpu_task
\* and mixed_task return dictionaries or raise; "returns_none" is a workload
\* function put in their place whose success value is None.
Payloads == {"returns", "returns_none", "raises"}

\* the (task_type, payload) pairs the model draws its Tasks from; the Worker
\* treats every workload function alike, so which type goes with which
\* behaviour makes no difference to it
TaskShapes == {<<"io", "raises">>, <<"cpu", "returns">>,
               <<"mixed", "returns_none">>}

----------------------------------------------------------------------------
(* task.py *)

\* None, the poison pill of the task queue
NoneItem == [id |-> 0, task_type |-> "None", payload |-> "None",
             result |-> "None", processing_time |-> 0]

\* Task(id, task_type, payload) with the dataclass defaults
Task(id, task_type, payload) ==
    [id |-> id, task_type |-> task_type, payload |-> payload,
     result |-> "None", processing_time |-> 0]

\* the workload functions of task.py
WorkloadFunctions == {"io_task", "cpu_task", "mixed_task"}

\* a lookup without a default: task_functions[task_type], which has no
\* function to give for a tag that is not a key
get_task_function_NoDefault(task_type) ==
    CASE task_type = "io" -> "io_task"
      [] task_type = "cpu" -> "cpu_task"
      [] task_type = "mixed" -> "mixed_task"
      [] OTHER -> "KeyError"

\* task_functions.get(task_type, cpu_task)
get_task_function(task_type) ==
    CASE task_type = "io" -> "io_task"
      [] task_type = "cpu" -> "cpu_task"
      [] task_type = "mixed" -> "mixed_task"
      [] OTHER -> "cpu_task"

\* task_func(task.payload): the value returned or the exception raised, and
\* the time the call took
CallWorkload(task_func, payload) ==
    CASE task_func \notin WorkloadFunctions ->
             [raised |-> TRUE, value |-> "None", elapsed |-> 0]
      [] payload = "raises" ->
             [raised |-> TRUE, value |-> "None", elapsed |-> 0]
      [] payload = "returns_none" ->
             [raised |-> FALSE, value |-> "None", elapsed |-> 1]
      [] OTHER ->
             [raised |-> FALSE, value |-> "Value", elapsed |-> 1]

----------------------------------------------------------------------------
(* worker.py *)

\* the operands of the subtraction exchanged
Elapsed_Swapped(start_time, end_time) == start_time - end_time

\* time.time() - start_time
Elapsed(start_time, end_time) == end_time - start_time

\* the except branch records the time and forgets the error marker
process_task_NoMarker(task, start_time) ==
    LET call == CallWorkload(get_task_function(task.task_type), task.payload)
        end_time == start_time + call.elapsed
    IN  [task EXCEPT !.result = call.value,
                     !.processing_time = Elapsed(start_time, end_time)]

\* Worker.process_task; start_time is the clock reading before the call
process_task(task, start_time) ==
    LET call == CallWorkload(get_task_function(task.task_type), task.payload)
        end_time == start_time + call.elapsed
    IN  IF call.raised
        THEN [task EXCEPT !.result = "Error",
                          !.processing_time = Elapsed(start_time, end_time)]
        ELSE [task EXCEPT !.result = call.value,
                          !.processing_time = Elapsed(start_time, end_time)]

----------------------------------------------------------------------------
(* master.py: construction *)

\* range(n) as the worker ids i+1
WorkerIds(n) == [i \in 1 .. (IF n > 0 THEN n ELSE 0) |-> i]

\* Master.__init__ followed by the subclass's create_workers
Construct(kind, requested) ==
    LET n == IF kind = "single_process" THEN 1 ELSE requested
        ws == IF kind = "single_process" THEN <<1>> ELSE WorkerIds(n)
    IN  /\ backend = kind
        /\ num_workers = n
        /\ workers = ws
        /\ running = FALSE
        /\ tasks_submitted = 0
        /\ tasks_completed = 0
        /\ task_queue = <<>>
        /\ result_queue = <<>>
        /\ wpc = [w \in 1 .. Len(ws) |-> "created"]
        /\ wrunning = [w \in 1 .. Len(ws) |-> TRUE]
        /\ wtask = [w \in 1 .. Len(ws) |-> NoneItem]
        /\ wpills = [w \in 1 .. Len(ws) |-> 0]

Init ==
    /\ \E kind \in Backends, requested \in -1 .. MaxWorkers :
           Construct(kind, requested)
    /\ sentinels_sent = 0
    /\ mpc = "idle"
    /\ rb = "none"
    /\ rbN = 0
    /\ rbI = 0
    /\ rbFresh = FALSE
    /\ rbStarted = FALSE
    /\ rbPolled = FALSE
    /\ all_results = <<>>
    /\ rbResult = [set |-> FALSE]
    /\ exc = "none"
    /\ stopCalls = 0
    /\ wflag = [w \in 1 .. Len(workers) |-> TRUE]
    /\ waitTimeout = <<>>
    /\ waitElapsed = 0
    /\ waitTimedOut = FALSE
    /\ waitBacklog = {}
    /\ stopMark = 0

W == 1 .. Len(workers)

----------------------------------------------------------------------------
(* master.py: operations of the Master *)

RECURSIVE SumTimes(_)
\* sum(task.processing_time for task in results)
SumTimes(results) ==
    IF results = <<>> THEN 0
    ELSE Head(results).processing_time + SumTimes(Tail(results))

\* the tasks of results whose task_type is ty, in order
OfType(results, ty) == SelectSeq(results, LAMBDA t : t.task_type = ty)

Zero == [num |-> 0, den |-> 1, error |-> "none"]

\* a / b on numbers: the quotient as a fraction, or ZeroDivisionError
Div(a, b) ==
    IF b = 0 THEN [num |-> a, den |-> 0, error |-> "ZeroDivisionError"]
    ELSE IF a = 0 THEN Zero
    ELSE [num |-> a, den |-> b, error |-> "none"]

\* num_tasks / total_time if total_time > 0 else 0
tasks_per_second(num_tasks, total_time) ==
    IF total_time > 0 THEN Div(num_tasks, total_time) ELSE Zero

\* the mean taken without the `if task_times` guard
avg_task_time_NoGuard(results) == Div(SumTimes(results), Len(results))

\* sum(task_times) / len(task_times) if task_times else 0
avg_task_time(results) ==
    IF Len(results) # 0 THEN Div(SumTimes(results), Len(results)) ELSE Zero

\* avg_by_type[task_type] = sum(times) / len(times), for the types that occur
avg_by_type(results) ==
    [ty \in {results[i].task_type : i \in 1 .. Len(results)} |->
        Div(SumTimes(OfType(results, ty)), Len(OfType(results, ty)))]

\* the benchmark_result dictionary of run_benchmark
benchmark_result(num_tasks, results, total_time) ==
    [set |-> TRUE,
     master_type |-> backend,
     num_workers |-> num_workers,
     num_tasks |-> num_tasks,
     total_time |-> total_time,
     tasks_per_second |-> tasks_per_second(num_tasks, total_time),
     avg_task_time |-> avg_task_time(results),
     avg_by_type |-> avg_by_type(results)]

\* the exception the statistics block of run_benchmark raises, or "none"
StatsError(rec) ==
    IF \/ rec.tasks_per_second.error # "none"
       \/ rec.avg_task_time.error # "none"
       \/ \E ty \in DOMAIN rec.avg_by_type : rec.avg_by_type[ty].error # "none"
    THEN "ZeroDivisionError" ELSE "none"

\* how many workers, from the front of the pool, can still be start()ed:
\* Thread.start / Process.start raise on an object that was started before
Startable ==
    IF \A w \in W : wpc[w] = "created" THEN Len(workers)
    ELSE (CHOOSE w \in W : wpc[w] # "created"
                           /\ \A v \in 1 .. (w - 1) : wpc[v] = "created") - 1

\* start_workers: worker.start() succeeds for the first k workers; the loop
\* raises at worker k+1 when there is one, else running becomes True
start_workers(k) ==
    /\ wpc' = [w \in W |-> IF w <= k THEN "head" ELSE wpc[w]]
    /\ running' = IF k = Len(workers) THEN TRUE ELSE running

StartRaises(k) == k < Len(workers)

\* a single pill for the whole pool
put_sentinels_One(queue) == Append(queue, NoneItem)

\* the pills pushed in front of what the queue holds
put_sentinels_Front(queue) == [i \in 1 .. Len(workers) |-> NoneItem] \o queue

\* stop_workers: `for _ in range(len(self.workers)): self.task_queue.put(None)`
put_sentinels(queue) == queue \o [i \in 1 .. Len(workers) |-> NoneItem]

\* submit_task
submit_task(task) ==
    /\ task_queue' = Append(task_queue, task)
    /\ tasks_submitted' = tasks_submitted + 1

\* result_queue.get(block=False) until Empty: how many items one call of
\* collect_results can take.  A queue.Queue hands over all it holds; a
\* multiprocessing.Queue may report Empty while items are still in transit.
Collectable ==
    IF backend = "multiprocess" THEN 0 .. Len(result_queue)
    ELSE {Len(result_queue)}

\* the first item taken is counted and not appended to results
collected_DropFirst(k) == SubSeq(result_queue, 2, k)

\* collect_results: the batch it returns when it takes k items
collected(k) == SubSeq(result_queue, 1, k)

\* a collect_results that counts the call, not the items it took
collect_results_CountCall(k) ==
    /\ result_queue' = SubSeq(result_queue, k + 1, Len(result_queue))
    /\ tasks_completed' = tasks_completed + 1

\* a collect_results that takes its items from the tail of the queue
collect_results_FromTail(k) ==
    /\ result_queue' = SubSeq(result_queue, 1, Len(result_queue) - k)
    /\ tasks_completed' = tasks_completed + k

\* collect_results: k items leave the result queue, each one counted
collect_results(k) ==
    /\ result_queue' = SubSeq(result_queue, k + 1, Len(result_queue))
    /\ tasks_completed' = tasks_completed + k

----------------------------------------------------------------------------
(* master.py: run_benchmark, step by step *)

\* the Master is as its constructor left it
Pristine ==
    /\ ~running
    /\ tasks_submitted = 0
    /\ tasks_completed = 0
    /\ task_queue = <<>>
    /\ result_queue = <<>>
    /\ \A w \in W : wpc[w] = "created"

\* run_benchmark(n) up to and including start_workers(); worker.start()
\* succeeds for the first k workers
RunBenchmark(n, k) ==
    /\ mpc = "idle"
    /\ tasks_submitted + n <= MaxTasks
    /\ start_workers(k)
    /\ rbN' = n
    /\ rbI' = 0
    /\ rbFresh' = Pristine
    /\ rbStarted' = ~StartRaises(k)
    /\ rbPolled' = FALSE
    /\ all_results' = <<>>
    /\ rbResult' = [set |-> FALSE]
    /\ waitTimeout' = <<>>
    /\ waitElapsed' = 0
    /\ waitTimedOut' = FALSE
    /\ waitBacklog' = {}
    /\ IF StartRaises(k)
       THEN /\ rb' = "raising"
            /\ exc' = "RuntimeError"
            /\ mpc' = "finally"
       ELSE /\ rb' = "active"
            /\ exc' = "none"
            /\ mpc' = IF n = 0 THEN "wait" ELSE "gen"
    /\ UNCHANGED <<backend, num_workers, workers, tasks_submitted,
                   tasks_completed, task_queue, result_queue, wrunning,
                   wtask, wpills, sentinels_sent, stopCalls,
                   wflag, stopMark>>

\* a workload whose ids are the loop indices themselves
workload_id_Index(i) == i

\* generate_workload: the id it gives to the task of loop index i
workload_id(i) == i + 1

\* one iteration of generate_workload's loop:
\* task = generate_random_task(i+1); self.submit_task(task)
GenerateTask(shape) ==
    /\ mpc = "gen"
    /\ submit_task(Task(workload_id(rbI), shape[1], shape[2]))
    /\ rbI' = rbI + 1
    /\ mpc' = IF rbI + 1 = rbN THEN "wait" ELSE "gen"
    /\ UNCHANGED <<backend, num_workers, workers, running, tasks_completed,
                   result_queue, wpc, wrunning, wtask, wpills,
                   sentinels_sent, rb, rbN, rbFresh, rbStarted, rbPolled,
                   all_results, rbResult, exc, stopCalls,
                   wflag, waitVars, stopMark>>

\* `if timeout`: None and 0 are false, every other number is true
Truthy(timeout) == timeout # <<>> /\ timeout[1] # 0

\* if timeout and (time.time() - start_time) > timeout
TimedOut(timeout, elapsed) == Truthy(timeout) /\ elapsed > timeout[1]

\* time.time() - start_time as the loop can read it next: not less than the
\* reading before; the top of WaitClock stands for every later instant.  The
\* clock is not read when `timeout` is false (the `and` short-circuits).
Readings ==
    IF Truthy(waitTimeout) THEN {e \in WaitClock : e >= waitElapsed}
    ELSE {waitElapsed}

\* where wait_for_completion returns to: run_benchmark, or the caller
WaitReturn == IF rb = "active" THEN "stats" ELSE "idle"

\* one iteration of wait_for_completion's loop with the timeout not
\* exceeded: collect_results, extend, sleep
WaitPoll(k, now) ==
    /\ mpc = "wait"
    /\ tasks_completed < tasks_submitted
    /\ ~TimedOut(waitTimeout, now)
    /\ waitElapsed' = now
    /\ collect_results(k)
    /\ all_results' = all_results \o collected(k)
    /\ rbPolled' = TRUE
    /\ UNCHANGED <<backend, num_workers, workers, running, tasks_submitted,
                   task_queue, wpc, wrunning, wtask, wpills, sentinels_sent,
                   mpc, rb, rbN, rbI, rbFresh, rbStarted, rbResult, exc,
                   stopCalls,
                   wflag, waitTimeout, waitTimedOut, waitBacklog, stopMark>>

\* wait_for_completion leaves its loop: the final collect_results; it returns
WaitFinish(k) ==
    /\ mpc = "wait"
    /\ ~(tasks_completed < tasks_submitted)
    /\ collect_results(k)
    /\ all_results' = all_results \o collected(k)
    /\ mpc' = WaitReturn
    /\ UNCHANGED <<backend, num_workers, workers, running, tasks_submitted,
                   task_queue, wpc, wrunning, wtask, wpills, sentinels_sent,
                   rb, rbN, rbI, rbFresh, rbStarted, rbPolled, rbResult, exc,
                   stopCalls,
                   wflag, waitVars, stopMark>>

\* how many Tasks (not sentinels) the queue holds
TasksIn(queue) == Cardinality({j \in 1 .. Len(queue) : queue[j] # NoneItem})

\* the ids of the Tasks the queue holds
QueuedIds(queue) ==
    {queue[j].id : j \in {n \in 1 .. Len(queue) : queue[n] # NoneItem}}

\* a timeout branch that throws away the work still queued
timeout_branch_Abandon(queue) == <<>>

\* what the timeout branch does to the task queue: self.logger.error(...)
\* and break, nothing else
timeout_branch(queue) == queue

\* wait_for_completion finds its timeout exceeded: it logs, breaks out of the
\* loop, does the final collect_results and returns
WaitExpire(k, now) ==
    /\ mpc = "wait"
    /\ tasks_completed < tasks_submitted
    /\ TimedOut(waitTimeout, now)
    /\ waitElapsed' = now
    /\ collect_results(k)
    /\ all_results' = all_results \o collected(k)
    /\ mpc' = WaitReturn
    /\ waitTimedOut' = TRUE
    /\ waitBacklog' = QueuedIds(task_queue)
    /\ task_queue' = timeout_branch(task_queue)
    /\ UNCHANGED <<backend, num_workers, workers, running, tasks_submitted,
                   wpc, wrunning, wtask, wpills, sentinels_sent,
                   rb, rbN, rbI, rbFresh, rbStarted, rbPolled, rbResult, exc,
                   stopCalls, wflag, waitTimeout, stopMark>>

\* the statistics block of run_benchmark, up to `return benchmark_result`
ComputeStats(total_time) ==
    /\ mpc = "stats"
    /\ LET rec == benchmark_result(rbN, all_results, total_time)
       IN  IF StatsError(rec) # "none"
           THEN /\ rb' = "raising"
                /\ exc' = StatsError(rec)
                /\ rbResult' = rbResult
           ELSE /\ rb' = "returning"
                /\ exc' = "none"
                /\ rbResult' = rec
    /\ mpc' = "finally"
    /\ UNCHANGED <<backend, num_workers, workers, running, tasks_submitted,
                   tasks_completed, task_queue, result_queue, wpc, wrunning,
                   wtask, wpills, sentinels_sent, rbN, rbI, rbFresh,
                   rbStarted, rbPolled, all_results, stopCalls,
                   wflag, waitVars, stopMark>>

\* run_benchmark without its finally clause
ExceptionTarget_Propagate == "idle"

\* where an exception raised inside the try block of run_benchmark goes
ExceptionTarget == "finally"

\* an exception out of generate_workload, wait_for_completion or the
\* statistics (interrupt, resource-sampling error) unwinds the try block
RaiseInBody ==
    /\ mpc \in {"gen", "wait", "stats"}
    /\ rb' = (IF ExceptionTarget = "finally" THEN "raising" ELSE "raised")
    /\ exc' = "Exception"
    /\ mpc' = ExceptionTarget
    /\ UNCHANGED <<backend, num_workers, workers, running, tasks_submitted,
                   tasks_completed, task_queue, result_queue, wpc, wrunning,
                   wtask, wpills, sentinels_sent, rbN, rbI, rbFresh,
                   rbStarted, rbPolled, all_results, rbResult, stopCalls,
                   wflag, waitVars, stopMark>>

\* run_benchmark is left: the pending return or exception takes effect
Leave(state) ==
    CASE state = "returning" -> "returned"
      [] state = "raising" -> "raised"
      [] OTHER -> state

\* stop_workers without its guard
StopGuard_Always == TRUE

\* whether stop_workers goes past its guard `if not self.running: return`
StopGuard == running

\* stop_workers up to the joins: the guard, then one None per worker
StopWorkersBegin ==
    IF StopGuard
    THEN /\ task_queue' = put_sentinels(task_queue)
         /\ sentinels_sent' =
                sentinels_sent + Len(put_sentinels(task_queue)) - Len(task_queue)
         /\ stopMark' = tasks_submitted
         /\ mpc' = "join"
         /\ rb' = rb
    ELSE /\ task_queue' = task_queue
         /\ sentinels_sent' = sentinels_sent
         /\ stopMark' = stopMark
         /\ mpc' = "idle"
         /\ rb' = Leave(rb)

\* the finally clause of run_benchmark: self.stop_workers()
Finally ==
    /\ mpc = "finally"
    /\ StopWorkersBegin
    /\ UNCHANGED <<backend, num_workers, workers, running, tasks_submitted,
                   tasks_completed, result_queue, wpc, wrunning, wtask,
                   wpills, rbN, rbI, rbFresh, rbStarted, rbPolled,
                   all_results, rbResult, exc, stopCalls,
                   wflag, waitVars>>

\* worker.join() without a timeout returns only once the worker has ended
JoinReturns_WhenEnded == \A w \in W : wpc[w] \in {"created", "stopped"}

\* worker.join(timeout=2.0) for each worker returns after at most that long,
\* whether or not the worker ended
JoinReturns == TRUE

\* stop_workers after the pills: the joins, then running = False
Join ==
    /\ mpc = "join"
    /\ JoinReturns
    /\ running' = FALSE
    /\ mpc' = "idle"
    /\ rb' = Leave(rb)
    /\ UNCHANGED <<backend, num_workers, workers, tasks_submitted,
                   tasks_completed, task_queue, result_queue, wpc, wrunning,
                   wtask, wpills, sentinels_sent, rbN, rbI, rbFresh,
                   rbStarted, rbPolled, all_results, rbResult, exc,
                   stopCalls,
                   wflag, waitVars, stopMark>>

----------------------------------------------------------------------------
(* master.py: the public operations called one by one *)

CallStartWorkers(k) ==
    /\ mpc = "idle"
    /\ start_workers(k)
    /\ exc' = IF StartRaises(k) THEN "RuntimeError" ELSE "none"
    /\ UNCHANGED <<backend, num_workers, workers, tasks_submitted,
                   tasks_completed, task_queue, result_queue, wrunning,
                   wtask, wpills, sentinels_sent, mpc, rb, rbN, rbI, rbFresh,
                   rbStarted, rbPolled, all_results, rbResult, stopCalls,
                   wflag, waitVars, stopMark>>

CallStopWorkers ==
    /\ mpc = "idle"
    /\ stopCalls < MaxStopCalls
    /\ stopCalls' = stopCalls + 1
    /\ exc' = "none"
    /\ StopWorkersBegin
    /\ UNCHANGED <<backend, num_workers, workers, running, tasks_submitted,
                   tasks_completed, result_queue, wpc, wrunning, wtask,
                   wpills, rbN, rbI, rbFresh, rbStarted, rbPolled,
                   all_results, rbResult,
                   wflag, waitVars>>

CallSubmitTask(shape) ==
    /\ mpc = "idle"
    /\ tasks_submitted < MaxTasks
    /\ submit_task(Task(tasks_submitted + 1, shape[1], shape[2]))
    /\ exc' = "none"
    /\ UNCHANGED <<backend, num_workers, workers, running, tasks_completed,
                   result_queue, wpc, wrunning, wtask, wpills,
                   sentinels_sent, mpc, rb, rbN, rbI, rbFresh, rbStarted,
                   rbPolled, all_results, rbResult, stopCalls,
                   wflag, waitVars, stopMark>>

\* wait_for_completion(timeout=timeout) called by the owner of the Master
CallWaitForCompletion(timeout) ==
    /\ mpc = "idle"
    /\ mpc' = "wait"
    /\ all_results' = <<>>
    /\ waitTimeout' = timeout
    /\ waitElapsed' = 0
    /\ waitTimedOut' = FALSE
    /\ waitBacklog' = {}
    /\ exc' = "none"
    /\ UNCHANGED <<backend, num_workers, workers, running, tasks_submitted,
                   tasks_completed, task_queue, result_queue, wpc, wrunning,
                   wtask, wpills, sentinels_sent, rb, rbN, rbI, rbFresh,
                   rbStarted, rbPolled, rbResult, stopCalls, wflag, stopMark>>

\* Worker.stop() called by the owner of the Master on its worker w:
\* self.running = False on the object the owner holds.  A ThreadWorker's
\* loop reads that same object; a ProcessWorker's loop runs in the child
\* process on the copy made by start(), which the assignment does not reach.
CallWorkerStop(w) ==
    /\ mpc = "idle"
    /\ wflag[w]
    /\ wflag' = [wflag EXCEPT ![w] = FALSE]
    /\ wrunning' = [wrunning EXCEPT ![w] =
                       IF backend = "multiprocess" /\ wpc[w] # "created"
                       THEN @ ELSE FALSE]
    /\ UNCHANGED <<backend, num_workers, workers, running, tasks_submitted,
                   tasks_completed, task_queue, result_queue, wpc, wtask,
                   wpills, sentinels_sent, mpc, rb, rbN, rbI, rbFresh,
                   rbStarted, rbPolled, all_results, rbResult, exc, stopCalls,
                   waitVars, stopMark>>

CallCollectResults(k) ==
    /\ mpc = "idle"
    /\ collect_results(k)
    /\ exc' = "none"
    /\ UNCHANGED <<backend, num_workers, workers, running, tasks_submitted,
                   task_queue, wpc, wrunning, wtask, wpills, sentinels_sent,
                   mpc, rb, rbN, rbI, rbFresh, rbStarted, rbPolled,
                   all_results, rbResult, stopCalls,
                   wflag, waitVars, stopMark>>

----------------------------------------------------------------------------
(* worker.py: ThreadWorker.run and ProcessWorker.run *)

\* `while self.running:` at the top of the loop
WorkerLoop(w) ==
    /\ wpc[w] = "head"
    /\ wpc' = [wpc EXCEPT ![w] = IF wrunning[w] THEN "get" ELSE "stopped"]
    /\ UNCHANGED <<backend, num_workers, workers, running, tasks_submitted,
                   tasks_completed, task_queue, result_queue, wrunning,
                   wtask, wpills, sentinels_sent, mpc, rb, rbN, rbI, rbFresh,
                   rbStarted, rbPolled, all_results, rbResult, exc,
                   stopCalls,
                   wflag, waitVars, stopMark>>

\* what the loop does with the item it dequeued: break on None, else process
AfterGet(item) == IF item = NoneItem THEN "stopped" ELSE "processing"

\* a get that hands over the head and leaves it on the queue
queue_get_Peek(queue) == [item |-> Head(queue), rest |-> queue]

\* a get that hands over the item put last
queue_get_Last(queue) ==
    [item |-> queue[Len(queue)], rest |-> SubSeq(queue, 1, Len(queue) - 1)]

\* Queue.get on a queue that holds an item: the head is handed over and
\* removed
queue_get(queue) == [item |-> Head(queue), rest |-> Tail(queue)]

\* task = self.task_queue.get(timeout=0.5) finds an item
WorkerGet(w) ==
    /\ wpc[w] = "get"
    /\ task_queue # <<>>
    /\ task_queue' = queue_get(task_queue).rest
    /\ wpc' = [wpc EXCEPT ![w] = AfterGet(queue_get(task_queue).item)]
    /\ wtask' = [wtask EXCEPT ![w] = queue_get(task_queue).item]
    /\ wpills' = [wpills EXCEPT ![w] =
                     IF queue_get(task_queue).item = NoneItem
                     THEN @ + 1 ELSE @]
    /\ UNCHANGED <<backend, num_workers, workers, running, tasks_submitted,
                   tasks_completed, result_queue, wrunning, sentinels_sent,
                   mpc, rb, rbN, rbI, rbFresh, rbStarted, rbPolled,
                   all_results, rbResult, exc, stopCalls,
                   wflag, waitVars, stopMark>>

\* the get times out (queue.Empty) and the loop continues: the queue is
\* empty, or it is a multiprocessing.Queue whose items are still in transit
WorkerEmpty(w) ==
    /\ wpc[w] = "get"
    /\ task_queue = <<>> \/ backend = "multiprocess"
    /\ wpc' = [wpc EXCEPT ![w] = "head"]
    /\ UNCHANGED <<backend, num_workers, workers, running, tasks_submitted,
                   tasks_completed, task_queue, result_queue, wrunning,
                   wtask, wpills, sentinels_sent, mpc, rb, rbN, rbI, rbFresh,
                   rbStarted, rbPolled, all_results, rbResult, exc,
                   stopCalls,
                   wflag, waitVars, stopMark>>

\* the result pushed at the head of the queue
put_result_Front(queue, processed_task) == <<processed_task>> \o queue

\* the result never put on the queue
put_result_Dropped(queue, processed_task) == queue

\* the result put on the queue twice
put_result_Twice(queue, processed_task) ==
    Append(Append(queue, processed_task), processed_task)

\* self.result_queue.put(processed_task)
put_result(queue, processed_task) == Append(queue, processed_task)

\* a worker that looks at its running flag while it holds a Task and gives
\* the Task up when the flag is down
WorkerProcess_Preempted(w, start_time) ==
    /\ wpc[w] = "processing"
    /\ result_queue' =
           IF wrunning[w]
           THEN put_result(result_queue, process_task(wtask[w], start_time))
           ELSE result_queue
    /\ wtask' = [wtask EXCEPT ![w] = NoneItem]
    /\ wpc' = [wpc EXCEPT ![w] = IF wrunning[w] THEN "head" ELSE "stopped"]
    /\ UNCHANGED <<backend, num_workers, workers, running, tasks_submitted,
                   tasks_completed, task_queue, wrunning, wpills,
                   sentinels_sent, mpc, rb, rbN, rbI, rbFresh, rbStarted,
                   rbPolled, all_results, rbResult, exc, stopCalls,
                   wflag, waitVars, stopMark>>

\* processed_task = self.process_task(task); self.result_queue.put(...)
WorkerProcess(w, start_time) ==
    /\ wpc[w] = "processing"
    /\ result_queue' =
           put_result(result_queue, process_task(wtask[w], start_time))
    /\ wtask' = [wtask EXCEPT ![w] = NoneItem]
    /\ wpc' = [wpc EXCEPT ![w] = "head"]
    /\ UNCHANGED <<backend, num_workers, workers, running, tasks_submitted,
                   tasks_completed, task_queue, wrunning, wpills,
                   sentinels_sent, mpc, rb, rbN, rbI, rbFresh, rbStarted,
                   rbPolled, all_results, rbResult, exc, stopCalls,
                   wflag, waitVars, stopMark>>

----------------------------------------------------------------------------
(* Specifications *)

WorkerStep ==
    \E w \in W :
        \/ WorkerLoop(w)
        \/ WorkerGet(w)
        \/ WorkerEmpty(w)
        \/ \E t0 \in Clock : WorkerProcess(w, t0)

BenchStepOver(shapes) ==
    \/ \E shape \in shapes : GenerateTask(shape)
    \/ \E k \in Collectable, now \in Readings : WaitPoll(k, now)
    \/ \E k \in Collectable : WaitFinish(k)
    \/ \E total_time \in Clock : ComputeStats(total_time)
    \/ Finally
    \/ Join

BenchStep == BenchStepOver(TaskShapes)

\* the Master as the benchmark harness uses it: run_benchmark(n) calls,
\* with start() failing at any worker and exceptions inside the try block
Next ==
    \/ \E n \in 0 .. MaxTasks, k \in 0 .. Startable : RunBenchmark(n, k)
    \/ RaiseInBody
    \/ BenchStep
    \/ WorkerStep

Spec == Init /\ [][Next]_vars

\* the benchmark harness: one run_benchmark(n) on a new Master, every
\* worker starting, no exception from outside
HarnessCall ==
    /\ rb = "none"
    /\ Pristine
    /\ \E n \in 0 .. MaxTasks : RunBenchmark(n, Len(workers))

\* the Tasks of the fair runs: one whose workload returns, one that raises
LiveShapes == {<<"cpu", "returns">>, <<"io", "raises">>}

LiveBenchStep == BenchStepOver(LiveShapes)

LiveNext == HarnessCall \/ LiveBenchStep \/ WorkerStep

\* The caller's thread keeps running and its poll finds what has arrived;
\* every started worker keeps running, a workload call ends, and a get on a
\* queue that holds an item does not time out for ever.
Fairness ==
    /\ WF_vars(LiveBenchStep)
    /\ WF_vars(WaitPoll(Len(result_queue), waitElapsed))
    /\ \A w \in 1 .. MaxWorkers :
           /\ WF_vars(w \in W /\ (WorkerLoop(w)
                                   \/ \E t0 \in Clock : WorkerProcess(w, t0)))
           /\ SF_vars(w \in W /\ WorkerGet(w))

LiveSpec == Init /\ [][LiveNext]_vars /\ Fairness

\* the Master driven through its public operations one by one, in any order
ApiNext ==
    \/ \E k \in 0 .. Startable : CallStartWorkers(k)
    \/ CallStopWorkers
    \/ \E shape \in TaskShapes : CallSubmitTask(shape)
    \/ \E k \in Collectable : CallCollectResults(k)
    \/ Join
    \/ WorkerStep

ApiSpec == Init /\ [][ApiNext]_vars

\* start_workers() with every start() that can succeed succeeding
StartAll == CallStartWorkers(Startable)

\* wait_for_completion from its call to its return
WaitStep ==
    \/ \E k \in Collectable, now \in Readings : WaitPoll(k, now)
    \/ \E k \in Collectable : WaitFinish(k)
    \/ \E k \in Collectable, now \in Readings : WaitExpire(k, now)

\* the Tasks of the runs that look at the flow only: a workload that returns
PlainShapes == {<<"cpu", "returns">>}

\* the owner submits tasks and waits for them itself, with or without a
\* timeout, around start_workers and collect_results
WaitNext ==
    \/ StartAll
    \/ \E shape \in PlainShapes : CallSubmitTask(shape)
    \/ \E timeout \in Timeouts : CallWaitForCompletion(timeout)
    \/ \E k \in Collectable : CallCollectResults(k)
    \/ WaitStep
    \/ WorkerStep

WaitSpec == Init /\ [][WaitNext]_vars

\* the same with a caller's thread and workers that keep running, and a
\* clock that goes past every timeout
WaitFairSpec ==
    /\ WaitSpec
    /\ Fairness
    /\ WF_vars(\E now \in Readings : WaitExpire(Len(result_queue), now))

\* task_type tags that are not keys of task_functions
UnknownTypes == {"gpu"}

\* Tasks made by a caller with a tag of its own, next to a regular one
TagShapes == {<<"gpu", "returns">>, <<"gpu", "raises">>, <<"cpu", "returns">>}

\* the owner submits Tasks of any tag to a started pool
TagNext ==
    \/ StartAll
    \/ \E shape \in TagShapes : CallSubmitTask(shape)
    \/ WorkerStep

TagSpec == Init /\ [][TagNext]_vars

\* the owner stops single workers through Worker.stop(), around
\* start_workers, submit_task and stop_workers
StopNext ==
    \/ StartAll
    \/ CallStopWorkers
    \/ \E shape \in PlainShapes : CallSubmitTask(shape)
    \/ \E w \in W : CallWorkerStop(w)
    \/ Join
    \/ WorkerStep

StopSpec == Init /\ [][StopNext]_vars

----------------------------------------------------------------------------
(* Properties *)

\* a run_benchmark call on a Master nobody used before, with a real pool
FreshRun == rbFresh /\ num_workers >= 1

\* every Task that reached the result queue during the current run, in the
\* order it got there: what the Master collected, then what still waits
Arrived == all_results \o result_queue

\* how many entries of seq carry the task id i
Occurrences(seq, i) == Cardinality({j \in 1 .. Len(seq) : seq[j].id = i})

\* the workload of task t raises
Fails(t) == t.payload = "raises"

\* C1: when run_benchmark(N) on a fresh Master with num_workers >= 1 returns
\* (no overall timeout), the batch wait_for_completion gathered holds exactly
\* N tasks, each id 1..N exactly once, and tasks_completed = tasks_submitted
\* = N -- for every backend.
C1_ExactlyN ==
    (rb = "returned" /\ FreshRun) =>
        /\ Len(all_results) = rbN
        /\ \A i \in 1 .. rbN : Occurrences(all_results, i) = 1
        /\ tasks_completed = rbN
        /\ tasks_submitted = rbN

C1_Witness ==
    /\ rb = "returned"
    /\ FreshRun
    /\ backend = "multiprocess"
    /\ Len(workers) >= 2
    /\ rbN >= 2
    /\ Len(all_results) = rbN

\* C2: under fairness of the worker loops and of the Master's polling loop,
\* run_benchmark(N) with num_workers >= 1 eventually returns: the wait loop
\* sees tasks_completed >= tasks_submitted and is left, and stop_workers
\* then completes (running is False again).
C2_Returns ==
    /\ [](mpc = "stats" => tasks_completed >= tasks_submitted)
    /\ (rb = "active" /\ num_workers >= 1)
           ~> (rb = "returned" /\ mpc = "idle" /\ ~running)

C2_Witness ==
    /\ rb = "returned"
    /\ mpc = "idle"
    /\ ~running
    /\ rbPolled
    /\ rbN >= 2
    /\ Len(workers) >= 2

\* C3: workload failures stay inside the Worker: whatever subset of the N
\* tasks raises, the run completes with tasks_completed = N, every task
\* arrives, a task whose workload raised carries the error marker and every
\* other task its workload's return value, and a Worker only ever leaves its
\* loop by taking a sentinel.
C3_FailuresContained ==
    /\ (rb = "returned" /\ FreshRun) =>
           /\ tasks_completed = rbN
           /\ \A i \in 1 .. rbN : \E j \in 1 .. Len(all_results) :
                  all_results[j].id = i
    /\ \A j \in 1 .. Len(Arrived) :
           LET t == Arrived[j]
           IN  /\ Fails(t) => t.result = "Error"
               /\ t.payload = "returns" => t.result = "Value"
               /\ t.payload = "returns_none" => t.result = "None"
    /\ \A w \in W : wpc[w] = "stopped" => wpills[w] = 1

C3_Witness ==
    /\ rb = "returned"
    /\ FreshRun
    /\ rbN >= 2
    /\ tasks_completed = rbN
    /\ \E j \in 1 .. Len(all_results) :
           Fails(all_results[j]) /\ all_results[j].result = "Error"
    /\ \E j \in 1 .. Len(all_results) : all_results[j].result = "Value"

\* C4: with the Sequential backend (one worker) tasks enter the result queue,
\* and so reach the Master's batch, in submission order: ids 1, 2, ..., N.
C4_SequentialOrder ==
    (backend = "single_process" /\ rbFresh) =>
        \A j \in 1 .. Len(Arrived) : Arrived[j].id = j

C4_Witness ==
    /\ backend = "single_process"
    /\ rbFresh
    /\ rb = "returned"
    /\ rbN >= 2
    /\ Len(all_results) = rbN
    /\ all_results[1].id = 1
    /\ all_results[2].id = 2

\* the sentinels that are still on the task queue
PillsQueued == Cardinality({j \in 1 .. Len(task_queue) : task_queue[j] = NoneItem})

RECURSIVE PillsTaken(_)
\* the sentinels workers 1..n have dequeued between them
PillsTaken(n) == IF n = 0 THEN 0 ELSE wpills[n] + PillsTaken(n - 1)

\* C5: stop_workers on a Master that is not running (before start_workers,
\* or again after a completed stop) raises nothing, enqueues no sentinel and
\* leaves running False; however often it is called, the sentinels enqueued
\* in total stay those of one stop.
C5_StopIdempotent ==
    /\ [][(CallStopWorkers /\ ~running) =>
              /\ task_queue' = task_queue
              /\ sentinels_sent' = sentinels_sent
              /\ ~running'
              /\ mpc' = "idle"
              /\ exc' = "none"]_vars
    /\ [](sentinels_sent <= Len(workers))

C5_Witness ==
    /\ stopCalls >= 2
    /\ mpc = "idle"
    /\ ~running
    /\ Len(workers) >= 2
    /\ sentinels_sent = Len(workers)
    /\ \A w \in W : wpc[w] = "stopped"

\* the sentinels of one shutdown, and who holds them
PillDiscipline ==
    /\ sentinels_sent \in {0, Len(workers)}
    /\ sentinels_sent > 0 => sentinels_sent = num_workers
    /\ sentinels_sent = PillsQueued + PillsTaken(Len(workers))
    /\ \A w \in W : wpills[w] <= 1 /\ (wpills[w] = 1 => wpc[w] = "stopped")

\* C6: one shutdown puts exactly num_workers sentinels on the task queue;
\* a Worker takes one sentinel, never two, and is STOPPED once it has; under
\* fairness every Worker then stops and no sentinel stays on the queue.
C6_OnePillEach ==
    /\ [](PillDiscipline)
    /\ (sentinels_sent > 0)
           ~> (PillsQueued = 0 /\ \A w \in W : wpc[w] = "stopped")

C6_Witness ==
    /\ Len(workers) >= 2
    /\ sentinels_sent = num_workers
    /\ PillsQueued = 0
    /\ \A w \in W : wpc[w] = "stopped" /\ wpills[w] = 1

\* C7: run_benchmark(0) returns its record and divides by nothing that is
\* zero: tasks_per_second = 0, avg_task_time = 0, avg_by_type empty, both
\* counters 0; the polling loop is never entered; the workers were started
\* and the shutdown was carried out.
C7_EmptyRun ==
    (rbN = 0 /\ rbFresh /\ rbStarted /\ rb \in {"returned", "raised"}) =>
        /\ exc # "ZeroDivisionError"
        /\ ~rbPolled
        /\ tasks_completed = 0
        /\ tasks_submitted = 0
        /\ \A w \in W : wpc[w] # "created"
        /\ sentinels_sent = Len(workers)
        /\ ~running
        /\ exc = "none" =>
               /\ rb = "returned"
               /\ rbResult.set
               /\ rbResult.num_tasks = 0
               /\ rbResult.tasks_per_second = Zero
               /\ rbResult.avg_task_time = Zero
               /\ DOMAIN rbResult.avg_by_type = {}

C7_Witness ==
    /\ rb = "returned"
    /\ rbN = 0
    /\ rbFresh
    /\ Len(workers) >= 2
    /\ rbResult.set
    /\ rbResult.tasks_per_second = Zero
    /\ sentinels_sent = Len(workers)

\* C8: a Threaded or Multiprocess Master is never constructed with a worker
\* count <= 0: such a construction fails, so no Master with an empty or
\* negative-sized pool exists.
C8_NoInvalidPool ==
    backend \in {"threaded", "multiprocess"} =>
        num_workers >= 1 /\ Len(workers) >= 1

\* C9: once start_workers has succeeded, run_benchmark is left -- by return
\* or by an exception out of generate_workload, wait_for_completion or the
\* statistics -- only through stop_workers: the sentinels have been sent and
\* Master.running is False.
C9_CleanupAlways ==
    (rb \in {"returned", "raised"} /\ rbStarted) =>
        /\ ~running
        /\ sentinels_sent = Len(workers)
        /\ mpc = "idle"

C9_Witness ==
    /\ rb = "raised"
    /\ rbStarted
    /\ exc = "Exception"
    /\ Len(workers) >= 2
    /\ tasks_submitted >= 1
    /\ ~running
    /\ sentinels_sent = Len(workers)

\* C10 as stated: every Task on the result queue has processing_time >= 0
\* and a non-null result, whatever the workload returns.
C10_NonNullResult ==
    \A j \in 1 .. Len(result_queue) :
        /\ result_queue[j].processing_time >= 0
        /\ result_queue[j].result # "None"

\* C10 amended: every Task on the result queue has processing_time >= 0; its
\* result is the error marker if the workload raised and the workload's
\* return value otherwise, so it is non-null exactly when the workload did
\* not return None.
C10_ResultOfWorkload ==
    \A j \in 1 .. Len(result_queue) :
        LET t == result_queue[j]
        IN  /\ t.processing_time >= 0
            /\ t.result \in {"Value", "Error", "None"}
            /\ t.result = "None" <=> t.payload = "returns_none"

C10_Witness ==
    /\ \E j \in 1 .. Len(result_queue) :
           /\ result_queue[j].result = "Value"
           /\ result_queue[j].processing_time > 0
    /\ \E j \in 1 .. Len(result_queue) : result_queue[j].result = "Error"

\* how many copies of the Task with id i exist at the places a Task can be:
\* the task queue, a worker's hands, the result queue, the collected batch
Held(i) ==
    Occurrences(task_queue, i) + Cardinality({w \in W : wtask[w].id = i})
        + Occurrences(result_queue, i) + Occurrences(all_results, i)

\* t is as submit_task got it: no result, no processing time
Pending(t) == t.result = "None" /\ t.processing_time = 0

\* C11: in a run on a fresh Master every submitted Task flows through the
\* system exactly once.  At any moment it is at exactly one place (waiting in
\* the task queue, in the hands of one worker, or once among the results);
\* it is pending until a worker has processed it; no step puts a Task on the
\* task queue except its submission; a worker takes a Task only by removing
\* it from the task queue; and a Task that reached the results keeps the
\* result and processing_time it got.
C11_ExactlyOnce ==
    /\ [](rbFresh =>
            /\ \A i \in 1 .. MaxTasks :
                   Held(i) = IF i <= tasks_submitted THEN 1 ELSE 0
            /\ \A j \in 1 .. Len(task_queue) : Pending(task_queue[j])
            /\ \A w \in W : Pending(wtask[w]))
    /\ [][(rbFresh /\ rbFresh') =>
            /\ \A i \in 1 .. MaxTasks :
                   /\ Occurrences(task_queue', i) > Occurrences(task_queue, i)
                          => tasks_submitted = i - 1 /\ tasks_submitted' = i
                   /\ \A w \in W :
                          wtask'[w].id = i /\ wtask[w].id # i
                              => /\ Occurrences(task_queue, i) = 1
                                 /\ Occurrences(task_queue', i) = 0
            /\ \A j \in 1 .. Len(Arrived) :
                   \E n \in 1 .. Len(Arrived') : Arrived'[n] = Arrived[j]]_vars

\* two workers have processed two Tasks and the Master has collected them
C11_Witness ==
    /\ rbFresh
    /\ Len(workers) >= 2
    /\ tasks_submitted = 2
    /\ Len(all_results) = 2
    /\ \E w \in W : wpc[w] = "stopped"

\* C12: the counters have one writer each.  A step that changes
\* tasks_submitted adds exactly 1 and is a submit_task (it appends one Task to
\* the task queue and touches nothing of the workers or the results); a step
\* that changes tasks_completed is a collect_results (it adds exactly the
\* number of items it removes from the head of the result queue and touches
\* nothing of the workers or the task queue).  Hence no worker step, no
\* start_workers and no stop_workers changes either counter, and both never
\* decrease.
C12_SingleWriter ==
    [][/\ tasks_submitted' # tasks_submitted =>
              /\ tasks_submitted' = tasks_submitted + 1
              /\ Len(task_queue') = Len(task_queue) + 1
              /\ SubSeq(task_queue', 1, Len(task_queue)) = task_queue
              /\ task_queue'[Len(task_queue')] # NoneItem
              /\ UNCHANGED <<tasks_completed, result_queue, running, wpc,
                             wrunning, wtask, wpills, sentinels_sent>>
       /\ tasks_completed' # tasks_completed =>
              /\ tasks_completed' > tasks_completed
              /\ tasks_completed' - tasks_completed
                     = Len(result_queue) - Len(result_queue')
              /\ result_queue' =
                     SubSeq(result_queue,
                            tasks_completed' - tasks_completed + 1,
                            Len(result_queue))
              /\ UNCHANGED <<tasks_submitted, task_queue, running, wpc,
                             wrunning, wtask, wpills, sentinels_sent>>]_vars

\* both counters have moved, and start_workers, the workers and stop_workers
\* have all acted
C12_Witness ==
    /\ tasks_submitted = 2
    /\ tasks_completed = 2
    /\ ~running
    /\ \E w \in W : wpc[w] = "stopped"

\* C13: the pool is as large as num_workers says, the worker ids are
\* 1..num_workers in pool order, and the sequential backend has num_workers
\* = 1 and exactly one worker.
C13_PoolFixed ==
    /\ Len(workers) = num_workers
    /\ \A j \in 1 .. Len(workers) : workers[j] = j
    /\ backend = "single_process" => num_workers = 1 /\ Len(workers) = 1

\* C14: wait_for_completion() called with its default (no timeout) returns:
\* whenever the caller is inside such a call, it eventually is not.
C14_WaitReturns ==
    (mpc = "wait" /\ waitTimeout = <<>>) ~> (mpc # "wait")

\* how many workers hold a Task they dequeued and have not yet put back
InHands == Cardinality({w \in W : wpc[w] = "processing"})

\* the latest wait_for_completion returned through its timeout and the
\* caller has made no new wait_for_completion call since
ReturnedByTimeout == waitTimedOut /\ mpc = "idle"

C16_BacklogAbandoned ==
    waitTimedOut => \A i \in waitBacklog : Occurrences(task_queue, i) = 1

\* C17: stop_workers always finishes.  Once the sentinels are on the queue
\* the joins can always return, whatever the workers are doing, and the step
\* that ends them sets running to False and returns to the caller without
\* raising anything.
C17_StopFinishes ==
    /\ [](mpc = "join" => ENABLED Join)
    /\ [][(mpc = "join" /\ mpc' # "join")
              => ~running' /\ mpc' = "idle" /\ exc' = exc]_vars

\* stop_workers has returned normally, the Master is not running, and a
\* worker is still in its loop
C17_Witness ==
    /\ mpc = "idle"
    /\ stopCalls >= 1
    /\ sentinels_sent >= 1
    /\ ~running
    /\ exc = "none"
    /\ \E w \in W : wpc[w] = "processing"

\* the ids of the Tasks that have left the task queue: in a worker's hands
\* or among the results
DequeuedIds ==
    {wtask[w].id : w \in {v \in W : wpc[v] = "processing"}}
        \cup {Arrived[j].id : j \in 1 .. Len(Arrived)}

\* C18: in a run on a fresh Master (ids in submission order) the Tasks leave
\* the task queue in submission order whatever the number of workers: the
\* queue holds its Tasks in ascending id order, and every Task already
\* dequeued has a smaller id than every Task still queued.  The order in
\* which results arrive is not constrained by this (C18_Witness).
C18_FifoDequeue ==
    rbFresh =>
        /\ \A a, b \in 1 .. Len(task_queue) :
               (a < b /\ task_queue[a] # NoneItem /\ task_queue[b] # NoneItem)
                   => task_queue[a].id < task_queue[b].id
        /\ \A i \in DequeuedIds, j \in QueuedIds(task_queue) : i < j

\* with two workers, a Task with a larger id has reached the result queue
\* before a Task with a smaller id
C18_Witness ==
    /\ rbFresh
    /\ Len(workers) >= 2
    /\ \E a, b \in 1 .. Len(Arrived) : a < b /\ Arrived[a].id > Arrived[b].id

\* C19: a worker that holds a dequeued Task does nothing else before that
\* Task is on the result queue.  Whatever step is taken while worker w is
\* processing -- a stop_workers, a Worker.stop() on w, a step of another
\* worker -- w is afterwards still processing the same Task, or it has put
\* that Task, processed, at the tail of the result queue and is back at the
\* top of its loop; it never goes from processing to the flag test's exit or
\* to another get.
C19_NoPreemption ==
    [][\A w \in W :
           wpc[w] = "processing" =>
               \/ wpc'[w] = "processing" /\ wtask'[w] = wtask[w]
               \/ /\ wpc'[w] = "head"
                  /\ \E t0 \in Clock :
                         result_queue' =
                             Append(result_queue, process_task(wtask[w], t0))]_vars

\* stop_workers has been called and Worker.stop() has reached the flag of a
\* worker that is in the middle of a Task
C19_Witness ==
    /\ sentinels_sent >= 1
    /\ \E w \in W : wpc[w] = "processing" /\ ~wrunning[w] /\ ~wflag[w]

\* C20: after Worker.stop() on a started worker the loop ends at its next
\* test of the flag, sentinel or not: a worker at the top of its loop whose
\* owner has called stop() goes nowhere but to STOPPED -- on every backend.
C20_StopExits ==
    [][\A w \in W :
           (~wflag[w] /\ wpc[w] = "head" /\ wpc'[w] # wpc[w])
               => wpc'[w] = "stopped"]_vars

\* C21: generate_workload(n) makes exactly n submissions.  While it runs its
\* loop index is below n and when it is over the index is n; iteration i
\* (from 0) appends one Task to the tail of the task queue, with id i + 1, a
\* task_type among io, cpu and mixed, no result and no processing time, and
\* adds 1 to tasks_submitted; on a fresh Master tasks_submitted is the number
\* of iterations done.  The submission is never refused or made to wait,
\* however many Tasks are outstanding.
C21_Workload ==
    /\ [](rb = "active" =>
              /\ mpc = "gen" => rbI < rbN
              /\ mpc \in {"wait", "stats"} => rbI = rbN
              /\ rbFresh => tasks_submitted = rbI)
    /\ [](mpc = "gen" => ENABLED (\E shape \in TaskShapes : GenerateTask(shape)))
    /\ [][rbI' = rbI + 1 =>
              /\ tasks_submitted' = tasks_submitted + 1
              /\ Len(task_queue') = Len(task_queue) + 1
              /\ SubSeq(task_queue', 1, Len(task_queue)) = task_queue
              /\ LET t == task_queue'[Len(task_queue')]
                 IN  /\ t.id = rbI + 1
                     /\ t.task_type \in TaskTypes
                     /\ Pending(t)]_vars

\* generate_workload(2) is over on a fresh Master and both Tasks are still
\* outstanding in the task queue, ids 1 and 2 in that order
C21_Witness ==
    /\ rb = "active"
    /\ mpc = "wait"
    /\ rbFresh
    /\ rbN = 2
    /\ tasks_submitted = 2
    /\ Len(task_queue) = 2
    /\ task_queue[1].id = 1
    /\ task_queue[2].id = 2

\* C22: collect_results never blocks and moves a head segment of the result
\* queue, nothing else.  The caller outside wait_for_completion can always
\* make the call; a step that takes items off the result queue leaves its
\* tail in place, counts exactly the items taken and touches neither the
\* task queue nor tasks_submitted; the collect_results steps made inside
\* wait_for_completion append exactly the items taken, in queue order, to
\* the batch; and on an empty result queue the step changes neither counter,
\* queue nor batch.
C22_CollectFrame ==
    /\ [](mpc = "idle" =>
              ENABLED (\E k \in Collectable : CallCollectResults(k)))
    /\ [][Len(result_queue') < Len(result_queue) =>
              /\ result_queue' =
                     SubSeq(result_queue,
                            Len(result_queue) - Len(result_queue') + 1,
                            Len(result_queue))
              /\ tasks_completed' =
                     tasks_completed + Len(result_queue) - Len(result_queue')
              /\ UNCHANGED <<task_queue, tasks_submitted>>]_vars
    /\ [][(mpc = "wait" /\ wpc' = wpc) =>
              /\ all_results' \o result_queue' = all_results \o result_queue
              /\ Len(all_results') >= Len(all_results)
              /\ tasks_completed' =
                     tasks_completed + Len(all_results') - Len(all_results)
              /\ UNCHANGED <<task_queue, tasks_submitted>>
              /\ result_queue = <<>> =>
                     UNCHANGED <<result_queue, all_results, tasks_completed>>]_vars

\* wait_for_completion has collected two results through collect_results
\* and the result queue is empty again for the next call
C22_Witness ==
    /\ mpc = "wait"
    /\ Len(all_results) = 2
    /\ all_results[1].id # all_results[2].id
    /\ tasks_completed = 2
    /\ result_queue = <<>>
    /\ backend = "multiprocess"

\* what Worker.process_task leaves in task.result when it runs the workload
\* function task_func on the payload
ResultWith(task_func, payload) ==
    IF CallWorkload(task_func, payload).raised THEN "Error"
    ELSE CallWorkload(task_func, payload).value

\* C23: the workload lookup is total and falls back to the CPU function.
\* For the Task a worker holds, a tag among io, cpu and mixed gives its own
\* function and any other tag gives cpu_task; and a Task with an unknown tag
\* that reached the result queue carries exactly what the CPU workload makes
\* of its payload -- its return value, not an error marker for the tag --
\* while none of the submitted Tasks is lost.
C23_Fallback ==
    /\ \A w \in W :
           wpc[w] = "processing" =>
               get_task_function(wtask[w].task_type) =
                   CASE wtask[w].task_type = "io" -> "io_task"
                     [] wtask[w].task_type = "mixed" -> "mixed_task"
                     [] OTHER -> "cpu_task"
    /\ \A j \in 1 .. Len(result_queue) :
           result_queue[j].task_type \in UnknownTypes =>
               result_queue[j].result =
                   ResultWith("cpu_task", result_queue[j].payload)
    /\ tasks_submitted = TasksIn(task_queue) + InHands + Len(result_queue)

\* a Task tagged gpu went through a worker and came out with the value the
\* CPU workload returned
C23_Witness ==
    \E j \in 1 .. Len(result_queue) :
        /\ result_queue[j].task_type = "gpu"
        /\ result_queue[j].payload = "returns"
        /\ result_queue[j].result = "Value"

\* C24: conservation of tasks.  In every reachable state tasks_submitted is
\* the number of Tasks in the task queue, plus those in the hands of a
\* worker, plus those in the result queue, plus tasks_completed; hence
\* tasks_completed never exceeds tasks_submitted.
C24_Conservation ==
    /\ tasks_submitted =
           TasksIn(task_queue) + InHands + Len(result_queue) + tasks_completed
    /\ tasks_completed <= tasks_submitted

\* one Task has been collected while another is in the hands of a worker
C24_Witness ==
    /\ tasks_submitted = 2
    /\ tasks_completed = 1
    /\ InHands = 1
    /\ sentinels_sent >= 1

\* the task queue holds no Task submitted before stop_workers put its
\* sentinels (submit_task number i carries id i when the owner numbers its
\* Tasks in submission order)
BacklogGone ==
    \A j \in 1 .. Len(task_queue) :
        task_queue[j] # NoneItem => task_queue[j].id > stopMark

\* C25: the sentinels stand behind everything submitted before the shutdown.
\* As soon as some worker has dequeued a sentinel, no Task submitted before
\* stop_workers is left in the task queue; so when all workers of a pool are
\* STOPPED, what the task queue still holds was submitted after the shutdown.
C25_BacklogFirst ==
    /\ (\E w \in W : wpills[w] >= 1) => BacklogGone
    /\ (W # {} /\ \A w \in W : wpc[w] = "stopped") => BacklogGone

\* both workers are STOPPED after a shutdown that found one Task submitted;
\* that Task is gone from the queue, the one submitted afterwards is there
C25_Witness ==
    /\ Len(workers) = 2
    /\ \A w \in W : wpc[w] = "stopped"
    /\ stopMark = 1
    /\ tasks_submitted = 2
    /\ TasksIn(task_queue) = 1

\* the workers whose start() has succeeded
Started == {w \in W : wpc[w] # "created"}

\* C26: whenever run_benchmark has exited, normally or by exception, a
\* sentinel has been enqueued for every worker that was started.
C26_StartedGetSentinel ==
    rb \in {"returned", "raised"} => sentinels_sent >= Cardinality(Started)

\* C27: a wait_for_completion that was given a timeout, whatever its value
\* (0 included), is bounded by it: whenever the caller is inside such a
\* call, it eventually is not.
C27_TimeoutBounds ==
    (mpc = "wait" /\ waitTimeout # <<>>) ~> (mpc # "wait")

====
